---- MODULE Spec2Model ----
(***************************************************************************)
(* The hand-written layer of the Abby Node.js SDK (src/src/index.ts): the  *)
(* Abby constructor, the per-instance client with its request and response *)
(* interceptors, the fetchWithTimeout wrapper and the event emitter.       *)
(*                                                                         *)
(* Time is abstract: a timer armed by setTimeout is "pending" until it     *)
(* either fires (the timeout elapsed) or is cleared.  JavaScript values    *)
(* are strings; the value undefined is the token Undefined.                *)
(***************************************************************************)
EXTENDS Integers, Sequences, FiniteSets, TLC

VARIABLES
    instances,          \* the Abby objects constructed so far
    clients,            \* the heap of HTTP clients; clients[1] is the module-level client
    lastCtor,           \* outcome of the latest `new Abby(apiKey, config)`
    calls,              \* the calls made so far, one record per Request object
    requestStartTimes,  \* per instance: the WeakMap request -> start time
    events,             \* per call: the events its response handed to emit(), in order
    now                 \* Date.now()

vars == <<instances, clients, lastCtor, calls, requestStartTimes, events, now>>

\* ------------------------------------------------------------------ bounds

MaxInstances == 2       \* instances constructed (Spec)
MaxCalls == 2           \* calls made through the clients (Spec)
MaxWrapperCalls == 2    \* concurrent calls through one wrapper (SpecTimeout)
MaxFairCalls == 1       \* concurrent calls through one wrapper (SpecTimeoutFair)
MaxRelayCalls == 2      \* calls observed by one response interceptor (SpecRelay)
MaxListenerCalls == 2   \* calls whose events reach the listeners (SpecListeners)
MaxCrossCalls == 2      \* calls made through two instances (SpecCross)
MaxServiceCalls == 2    \* calls made through service accessors (SpecService)
MaxFailureCalls == 1    \* calls that may fail at the transport (SpecFailures)
MaxReentrantCalls == 1  \* calls whose events reach listeners that change the listeners (SpecReentrant)
MaxClockCalls == 2      \* concurrent calls timed by one instance (SpecClock)
MaxRelayFairCalls == 1  \* calls observed by one response interceptor (SpecRelayFair)
MaxClock == 3           \* the latest value of Date.now()

\* ------------------------------------------------------------ JS values

Undefined == "undefined"

Truthy(v) == v \notin {"", Undefined}

EmptyObject == [k \in {} |-> Undefined]

HasOwn(o, k) == k \in DOMAIN o

\* { ...a, ...b }: every own key of b, the value undefined included, overrides a
Spread(a, b) ==
    [k \in (DOMAIN a) \cup (DOMAIN b) |-> IF k \in DOMAIN b THEN b[k] ELSE a[k]]

\* ------------------------------------------------------------ Headers

\* Header names are case-insensitive: Headers stores them lower-cased.
Lower(name) ==
    CASE name = "Authorization"         -> "authorization"
      [] name = "X-Abby-Client"         -> "x-abby-client"
      [] name = "X-Abby-Client-Version" -> "x-abby-client-version"
      [] name = "X-Custom-1"            -> "x-custom-1"
      [] name = "X-Custom-2"            -> "x-custom-2"
      [] OTHER                          -> name

HeadersSet(h, name, value) ==
    [n \in (DOMAIN h) \cup {Lower(name)} |-> IF n = Lower(name) THEN value ELSE h[n]]

HeadersGet(h, name) ==
    IF Lower(name) \in DOMAIN h THEN h[Lower(name)] ELSE "null"

\* for (const [key, value] of Object.entries(headers)) request.headers.set(key, value)
RECURSIVE SetEntries(_, _)
SetEntries(h, entries) ==
    IF entries = <<>> THEN h
    ELSE SetEntries(HeadersSet(h, Head(entries)[1], Head(entries)[2]), Tail(entries))

\* ------------------------------------------------------ configuration

DEFAULT_CONFIG ==
    "baseUrl" :> "https://api.app-abby.com" @@ "timeout" :> "30000"

SDK_VERSION == "__SDK_VERSION__"

ApiKeyError == "Abby API key is required"

\* The arguments callers pass to `new Abby(apiKey, config)`.
ConfigTimeout ==
    "baseUrl" :> "https://api1.example.com" @@ "timeout" :> "50"
        @@ "headers" :> << <<"X-Custom-1", "value1">> >>

ConfigFetch ==
    "headers" :> << <<"X-Custom-2", "value2">> >> @@ "fetch" :> "customFetch"
        @@ "timeout" :> Undefined

ConfigProxy ==
    "fetch" :> "customFetch" @@ "timeout" :> "5000"

ConfigClash ==
    "headers" :> << <<"authorization", "Basic other">>,
                    <<"X-Abby-Client", "custom-client">> >>

Arguments ==
    { <<"test_key_one", EmptyObject>>,
      <<"test_key_two", EmptyObject>>,
      <<"test_key_two", ConfigTimeout>>,
      <<"test_key_one", ConfigFetch>>,
      <<"test_key_two", ConfigClash>>,
      <<"", EmptyObject>>,
      <<Undefined, ConfigTimeout>> }

\* The options a caller passes to one call through a client.
\* A caller aborts its own signal with a reason of its own.
CallerAborted == [state |-> "aborted", reason |-> "CallerReason"]

CallerSignals ==
    { [state |-> "none", reason |-> "none"],
      [state |-> "live", reason |-> "none"],
      CallerAborted }

NoSignal == [state |-> "none", reason |-> "none"]

CallerHeaders == { EmptyObject, "authorization" :> "Bearer stale" }

\* ------------------------------------------------------------ the client

\* createClient(createConfig(config)): a new client object with no interceptors
createClient(config) ==
    [config |-> config, interceptors |-> [request |-> <<>>, response |-> <<>>]]

\* interceptors.request.use(fn) / interceptors.response.use(fn)
Use(client, chain, fn) ==
    [client EXCEPT !.interceptors[chain] = Append(@, fn)]

\* `export { client } from './client/client.gen'`: the module-level client
GlobalClient ==
    createClient([baseUrl |-> Undefined,
                  fetch |-> [baseFetch |-> "globalThis.fetch", timeoutMs |-> "none"],
                  throwOnError |-> FALSE])

\* --------------------------------------------------------- constructor

\* Fault: the configured transport is not used
baseFetchOf_global(config) == "globalThis.fetch"

\* const baseFetch = config.fetch ?? globalThis.fetch
baseFetchOf(config) ==
    IF HasOwn(config, "fetch") /\ config["fetch"] # Undefined
    THEN config["fetch"]
    ELSE "globalThis.fetch"

\* this.config = { ...DEFAULT_CONFIG, ...config }
mergeConfig(config) == Spread(DEFAULT_CONFIG, config)

\* the closure fetchWithTimeout captures baseFetch and timeoutMs
fetchWithTimeoutOf(config) ==
    [baseFetch |-> baseFetchOf(config), timeoutMs |-> mergeConfig(config)["timeout"]]

\* Fault: every instance uses the module-level client
instanceClientOf_shared(heap) == 1

\* the client the interceptors of a new instance are registered on: the
\* instance's own client, allocated at the end of the heap
instanceClientOf(heap) == Len(heap) + 1

\* initializeClient(): one request and one response interceptor, closed over `this`
initializeClient(client, self) ==
    Use(Use(client, "request", [fn |-> "requestInterceptor", self |-> self]),
        "response", [fn |-> "responseInterceptor", self |-> self])

\* Fault: only an undefined key is refused
apiKeyMissing_undefinedOnly(apiKey) == apiKey = Undefined

\* if (!apiKey) throw new Error('Abby API key is required. ...')
apiKeyMissing(apiKey) == ~Truthy(apiKey)

\* The instances and the heap of clients after a successful `new Abby(apiKey, config)`.
constructed(insts, heap, apiKey, config) ==
    LET self   == Len(insts) + 1
        fresh  == createClient([baseUrl |-> mergeConfig(config)["baseUrl"],
                                fetch |-> fetchWithTimeoutOf(config),
                                throwOnError |-> TRUE])
        grown  == Append(heap, fresh)
        target == instanceClientOf(heap)
    IN  [instances |-> Append(insts, [apiKey |-> apiKey,
                                      config |-> mergeConfig(config),
                                      instanceClient |-> target,
                                      eventListeners |-> [error |-> <<>>,
                                                          response |-> <<>>]]),
         clients   |-> [grown EXCEPT ![target] = initializeClient(grown[target], self)]]

\* new Abby(apiKey, config)
Abby(apiKey, config) ==
    IF apiKeyMissing(apiKey)
    THEN /\ lastCtor' = [apiKey |-> apiKey, threw |-> ApiKeyError]
         /\ UNCHANGED <<instances, clients, calls, requestStartTimes, events, now>>
    ELSE /\ LET new == constructed(instances, clients, apiKey, config)
            IN  /\ instances' = new.instances
                /\ clients' = new.clients
         /\ requestStartTimes' = Append(requestStartTimes, EmptyObject)
         /\ lastCtor' = [apiKey |-> apiKey, threw |-> "none"]
         /\ UNCHANGED <<calls, events, now>>

\* Fault: the client created last
getClient_latest(self) == Len(clients)

\* getClient(): return this.instanceClient
getClient(self) == instances[self].instanceClient

\* ------------------------------------------------------------ one call

\* Fault: the key of a module-level singleton: the instance constructed last
requestInterceptor_lastKey(self, headers) ==
    LET this == instances[self]
        h1 == HeadersSet(headers, "Authorization",
                         "Bearer " \o instances[Len(instances)].apiKey)
        h2 == IF HasOwn(this.config, "headers")
              THEN SetEntries(h1, this.config["headers"])
              ELSE h1
        h3 == HeadersSet(h2, "X-Abby-Client", "abby-node")
    IN  HeadersSet(h3, "X-Abby-Client-Version", SDK_VERSION)

\* Fault: the configured extra headers are not applied
requestInterceptor_noExtra(self, headers) ==
    LET h1 == HeadersSet(headers, "Authorization", "Bearer " \o instances[self].apiKey)
        h3 == HeadersSet(h1, "X-Abby-Client", "abby-node")
    IN  HeadersSet(h3, "X-Abby-Client-Version", SDK_VERSION)

\* The request interceptor of instance `self` (index.ts, initializeClient):
\* the headers it leaves on the request.
requestInterceptor(self, headers) ==
    LET this == instances[self]
        h1 == HeadersSet(headers, "Authorization", "Bearer " \o this.apiKey)
        h2 == IF HasOwn(this.config, "headers")
              THEN SetEntries(h1, this.config["headers"])
              ELSE h1
        h3 == HeadersSet(h2, "X-Abby-Client", "abby-node")
    IN  HeadersSet(h3, "X-Abby-Client-Version", SDK_VERSION)

\* Fault: one start time per instance instead of one per request
recordStart_single(maps, self, request) ==
    [maps EXCEPT ![self] = (1 :> now) @@ @]

\* requestStartTimes.set(request, Date.now()) in the map of instance `self`
recordStart(maps, self, request) ==
    [maps EXCEPT ![self] = (request :> now) @@ @]

\* for (const fn of interceptors.request.fns) request = await fn(request, opts)
RECURSIVE RunRequestFns(_, _, _)
RunRequestFns(fns, request, st) ==
    IF fns = <<>> THEN st
    ELSE RunRequestFns(Tail(fns), request,
            [headers |-> requestInterceptor(Head(fns).self, st.headers),
             maps    |-> recordStart(st.maps, Head(fns).self, request)])

\* `by` records what settled the transport's promise: the transport on its own,
\* or the abort of its signal.
NoOutcome == [kind |-> "pending", status |-> 0, error |-> "none", by |-> "none"]

NewCall(self, signal, st) ==
    [inst      |-> self,
     client    |-> getClient(self),
     headers   |-> st.headers,
     signal    |-> signal,          \* the caller's own AbortSignal, if any
     listening |-> FALSE,           \* the wrapper's 'abort' listener on it
     phase     |-> "intercepted",
     ctrl      |-> [aborted |-> FALSE, reason |-> "none"],
     cause     |-> "none",          \* what called controller.abort() first
     abortedIn |-> "none",          \* where the call was when that happened
     timer     |-> "none",
     delay     |-> "none",
     honors    |-> TRUE,
     baseFetch |-> "none",
     invoked   |-> 0,
     seen      |-> FALSE,           \* signal.aborted as the transport first saw it
     handed    |-> EmptyObject,     \* the headers the transport received
     init      |-> EmptyObject,     \* the init the transport received
     transport |-> NoOutcome,       \* how the transport's promise settled
     result    |-> NoOutcome,       \* how the wrapper's promise settled
     bodyEnds  |-> TRUE,            \* whether reading the response's body completes
     returned  |-> NoOutcome,       \* what the response interceptor returned
     given     |-> EmptyObject,     \* the options given to a service method
     options   |-> EmptyObject,     \* the options the generated method received
     startedAt |-> now,             \* Date.now() when the request interceptor ran
     observedAt |-> 0,              \* Date.now() when the response interceptor ran
     duration  |-> 0]

\* client.get(...) through the client of instance `self`: the client builds the
\* Request and runs its request interceptors on it.
Request(self, signal, headers) ==
    /\ self \in 1..Len(instances)
    /\ LET request == Len(calls) + 1
           fns == clients[getClient(self)].interceptors.request
           st  == RunRequestFns(fns, request,
                      [headers |-> headers, maps |-> requestStartTimes])
       IN  /\ calls' = Append(calls, NewCall(self, signal, st))
           /\ requestStartTimes' = st.maps
           /\ events' = Append(events, <<>>)
    /\ UNCHANGED <<instances, clients, lastCtor, now>>

\* The options callers pass to a method of a service accessor; a `client` in
\* them names a client of the heap: the module-level one, or another instance's.
ServiceOptions ==
    { EmptyObject,
      "path" :> "invoice_1",
      "path" :> "invoice_1" @@ "client" :> 1,
      "query" :> "page=2" @@ "client" :> 2 }

\* Fault: { client: instanceClient, ...options }
injectClient_callerWins(options, instanceClient) ==
    Spread("client" :> instanceClient, options)

\* createServiceProxy: value({ ...options, client: instanceClient })
injectClient(options, instanceClient) ==
    Spread(options, "client" :> instanceClient)

\* abby.invoice.getInvoice(options), any method of any service accessor of
\* instance `self`: the proxy injects the client and the generated method makes
\* its request through the client it finds in its options.
ServiceCall(self, given) ==
    /\ self \in 1..Len(instances)
    /\ LET passed  == injectClient(given, getClient(self))
           request == Len(calls) + 1
           fns == clients[passed["client"]].interceptors.request
           st  == RunRequestFns(fns, request,
                      [headers |-> EmptyObject, maps |-> requestStartTimes])
       IN  /\ calls' = Append(calls, [NewCall(self, NoSignal, st) EXCEPT
                                        !.client = passed["client"],
                                        !.given = given,
                                        !.options = passed])
           /\ requestStartTimes' = st.maps
           /\ events' = Append(events, <<>>)
    /\ UNCHANGED <<instances, clients, lastCtor, now>>

\* ------------------------------------------------------ fetchWithTimeout

\* Fault: one AbortController and one timer id shared by the calls of a wrapper
SetCall_shared(c, r) ==
    [d \in DOMAIN calls |->
        IF d = c THEN r
        ELSE IF calls[d].phase \in {"inflight", "settling"}
             THEN [calls[d] EXCEPT !.ctrl = r.ctrl, !.timer = r.timer]
             ELSE calls[d]]

\* the state of call c replaced: each call of fetchWithTimeout has its own
\* controller and timeoutId, local constants of that call
SetCall(c, r) == [calls EXCEPT ![c] = r]

\* controller.abort(): no reason is given, so the signal's reason is the default
\* AbortError; aborting an aborted controller changes nothing
abort(ctrl) ==
    IF ctrl.aborted THEN ctrl ELSE [aborted |-> TRUE, reason |-> "AbortError"]

\* the ghost record of which trigger aborted the controller first
causeOf(ctrl, cause, trigger) ==
    IF ctrl.aborted \/ cause # "none" THEN cause ELSE trigger

\* Fault: the listener is added without looking at existingSignal.aborted
mergeSignal_listenOnly(call) ==
    IF call.signal.state = "none" THEN call ELSE [call EXCEPT !.listening = TRUE]

\* const existingSignal = init?.signal; if (existingSignal) { ... }
mergeSignal(call) ==
    IF call.signal.state = "none" THEN call
    ELSE IF call.signal.state = "aborted"
         THEN [call EXCEPT !.ctrl = abort(call.ctrl),
                           !.cause = causeOf(call.ctrl, call.cause, "already-aborted"),
                           !.abortedIn = causeOf(call.ctrl, @, call.phase)]
         ELSE [call EXCEPT !.listening = TRUE]

\* { ...init, signal: controller.signal }: the init handed to baseFetch
fetchInit(call) ==
    Spread(IF call.signal.state = "none" THEN EmptyObject
           ELSE "signal" :> "init.signal",
           "signal" :> "controller.signal")

\* Fault: the timer is not cleared
clearTimeout_leak(timer) == timer

\* globalThis.clearTimeout(timeoutId)
clearTimeout(timer) == IF timer = "pending" THEN "cleared" ELSE timer

\* The microtask queue is empty: no call is between two awaits of a running
\* continuation.  Timers are macrotasks and run only then.
Idle == \A c \in 1..Len(calls) : calls[c].phase \notin {"intercepted", "settling"}

\* The client calls opts.fetch(request, init), the fetchWithTimeout of its
\* instance: the synchronous part, up to `await baseFetch(...)`.
fetchWithTimeout(c, honors) ==
    /\ c \in 1..Len(calls)
    /\ calls[c].phase = "intercepted"
    /\ LET wrapper == clients[calls[c].client].config.fetch
           armed   == [calls[c] EXCEPT !.ctrl = [aborted |-> FALSE, reason |-> "none"],
                                       !.timer = "pending",
                                       !.delay = wrapper.timeoutMs]
           merged  == mergeSignal(armed)
       IN  /\ wrapper.baseFetch = "globalThis.fetch" => honors
           /\ calls' = SetCall(c, [merged EXCEPT !.phase = "inflight",
                                                 !.honors = honors,
                                                 !.baseFetch = wrapper.baseFetch,
                                                 !.invoked = @ + 1,
                                                 !.seen = merged.ctrl.aborted,
                                                 !.handed = merged.headers,
                                                 !.init = fetchInit(merged)])
    /\ UNCHANGED <<instances, clients, lastCtor, requestStartTimes, events, now>>

\* Fault: the timer's callback does not abort the controller
TimerFire_noAbort(c) ==
    /\ c \in 1..Len(calls)
    /\ calls[c].timer = "pending"
    /\ Idle
    /\ calls' = SetCall(c, [calls[c] EXCEPT !.timer = "fired"])
    /\ UNCHANGED <<instances, clients, lastCtor, requestStartTimes, events, now>>

\* setTimeout(() => controller.abort(), timeoutMs): the timeout elapses
TimerFire(c) ==
    /\ c \in 1..Len(calls)
    /\ calls[c].timer = "pending"
    /\ Idle
    /\ calls' = SetCall(c, [calls[c] EXCEPT !.timer = "fired",
                                            !.ctrl = abort(@),
                                            !.cause = causeOf(calls[c].ctrl, @, "timeout"),
                                            !.abortedIn = causeOf(calls[c].ctrl, @, calls[c].phase)])
    /\ UNCHANGED <<instances, clients, lastCtor, requestStartTimes, events, now>>

\* Fault: controller.abort(existingSignal.reason)
onCallerAbort_reason(call) ==
    IF call.listening
    THEN [call EXCEPT !.ctrl = IF @.aborted THEN @
                               ELSE [aborted |-> TRUE, reason |-> call.signal.reason],
                      !.cause = causeOf(call.ctrl, @, "caller"),
                      !.abortedIn = causeOf(call.ctrl, @, call.phase)]
    ELSE call

\* existingSignal.addEventListener('abort', () => controller.abort()): the
\* listener is never removed, so it runs whenever the caller's signal aborts
onCallerAbort(call) ==
    IF call.listening
    THEN [call EXCEPT !.ctrl = abort(@),
                      !.cause = causeOf(call.ctrl, @, "caller"),
                      !.abortedIn = causeOf(call.ctrl, @, call.phase)]
    ELSE call

\* The caller aborts the signal it passed to the call.
CallerAbort(c) ==
    /\ c \in 1..Len(calls)
    /\ calls[c].signal.state = "live"
    /\ calls' = SetCall(c, onCallerAbort(
                    [calls[c] EXCEPT !.signal = CallerAborted]))
    /\ UNCHANGED <<instances, clients, lastCtor, requestStartTimes, events, now>>

\* The transport (baseFetch) resolves with a response.  A transport that honours
\* its signal no longer resolves once the signal is aborted.
TransportResolve(c, status) ==
    /\ c \in 1..Len(calls)
    /\ calls[c].phase = "inflight"
    /\ calls[c].honors => ~calls[c].ctrl.aborted
    /\ calls' = SetCall(c, [calls[c] EXCEPT !.phase = "settling",
                               !.transport = [kind |-> "response", status |-> status,
                                              error |-> "none", by |-> "transport"]])
    /\ UNCHANGED <<instances, clients, lastCtor, requestStartTimes, events, now>>

\* The transport resolves with a response (its headers have arrived) whose body
\* never ends: the server keeps the connection open and sends nothing more.
TransportResolveStalled(c, status) ==
    /\ c \in 1..Len(calls)
    /\ calls[c].phase = "inflight"
    /\ calls[c].honors => ~calls[c].ctrl.aborted
    /\ calls' = SetCall(c, [calls[c] EXCEPT !.phase = "settling",
                               !.bodyEnds = FALSE,
                               !.transport = [kind |-> "response", status |-> status,
                                              error |-> "none", by |-> "transport"]])
    /\ UNCHANGED <<instances, clients, lastCtor, requestStartTimes, events, now>>

\* The transport rejects with a network failure.
TransportFail(c) ==
    /\ c \in 1..Len(calls)
    /\ calls[c].phase = "inflight"
    /\ calls[c].honors => ~calls[c].ctrl.aborted
    /\ calls' = SetCall(c, [calls[c] EXCEPT !.phase = "settling",
                               !.transport = [kind |-> "error", status |-> 0,
                                              error |-> "TypeError", by |-> "transport"]])
    /\ UNCHANGED <<instances, clients, lastCtor, requestStartTimes, events, now>>

\* A transport that honours its signal rejects with the signal's reason once
\* the signal is aborted.
TransportAbort(c) ==
    /\ c \in 1..Len(calls)
    /\ calls[c].phase = "inflight"
    /\ calls[c].honors
    /\ calls[c].ctrl.aborted
    /\ calls' = SetCall(c, [calls[c] EXCEPT !.phase = "settling",
                               !.transport = [kind |-> "error", status |-> 0,
                                              error |-> calls[c].ctrl.reason, by |-> "abort"]])
    /\ UNCHANGED <<instances, clients, lastCtor, requestStartTimes, events, now>>

\* Fault: a catch turns the transport's failure into a synthetic 599 response
settle_swallow(call) ==
    [call EXCEPT !.timer = clearTimeout(@),
                 !.phase = "resolved",
                 !.result = IF call.transport.kind = "response" THEN call.transport
                            ELSE [kind |-> "response", status |-> 599,
                                  error |-> "none", by |-> call.transport.by]]

\* Fault: clearTimeout after the await instead of in a finally block
settle_clearOnSuccess(call) ==
    [call EXCEPT !.timer = IF call.transport.kind = "response" THEN clearTimeout(@) ELSE @,
                 !.phase = IF call.transport.kind = "response" THEN "resolved" ELSE "rejected",
                 !.result = call.transport]

\* Fault: a failed transport is called once more before the failure is surfaced
settle_retry(call) ==
    IF call.transport.kind = "error" /\ call.invoked < 2
    THEN [call EXCEPT !.phase = "inflight", !.invoked = @ + 1, !.transport = NoOutcome]
    ELSE [call EXCEPT !.timer = clearTimeout(@),
                      !.phase = IF call.transport.kind = "response" THEN "resolved"
                                ELSE "rejected",
                      !.result = call.transport]

\* return await baseFetch(...) / finally { clearTimeout(timeoutId) }: what the
\* wrapper delivers once the transport's promise has settled
settle(call) ==
    [call EXCEPT !.timer = clearTimeout(@),
                 !.phase = IF call.transport.kind = "response" THEN "resolved" ELSE "rejected",
                 !.result = call.transport]

fetchWithTimeoutSettle(c) ==
    /\ c \in 1..Len(calls)
    /\ calls[c].phase = "settling"
    /\ calls' = SetCall(c, settle(calls[c]))
    /\ UNCHANGED <<instances, clients, lastCtor, requestStartTimes, events, now>>

\* ---------------------------------------------------------- event relay

\* The statuses and bodies a transport answers with.
Statuses == {200, 299, 304, 404, 500}

Str(v) == [type |-> "string", v |-> v]
Absent == [type |-> "undefined", v |-> Undefined]

\* A body that is not JSON, or that cannot be read: clone() or json() throws.
NotParsed == [json |-> FALSE, object |-> FALSE, message |-> Absent, error |-> Absent]

Bodies ==
    { NotParsed,
      [json |-> TRUE,  object |-> TRUE,  message |-> Str("not found"), error |-> Absent],
      [json |-> TRUE,  object |-> TRUE,  message |-> [type |-> "number", v |-> "42"],
                                         error |-> Str("bad request")],
      [json |-> TRUE,  object |-> TRUE,  message |-> Str(""), error |-> Str("bad request")],
      [json |-> TRUE,  object |-> TRUE,  message |-> Absent, error |-> Absent],
      [json |-> TRUE,  object |-> FALSE, message |-> Absent, error |-> Absent] }

\* response.ok
Ok(status) == status \in 200..299

\* The callbacks callers subscribe.  One of them throws whenever it is invoked;
\* two of them change the listeners of the event kind they are invoked for.
Listeners == {"logger", "thrower", "remover", "mover"}

EventKinds == {"response", "error"}

Throws(listener) == listener = "thrower"

\* The subscriptions callers make and cancel: <<event kind, listener>>.
Subscriptions ==
    { <<"response", "logger">>, <<"response", "thrower">>, <<"error", "logger">> }

\* A Set keeps its members in insertion order, each once.
SetAdd(set, x) ==
    IF \E k \in 1..Len(set) : set[k] = x THEN set ELSE Append(set, x)

SetDelete(set, x) == SelectSeq(set, LAMBDA y : y # x)

\* Fault: off() empties the set of that kind
off_clear(self, event, listener) ==
    /\ self \in 1..Len(instances)
    /\ instances' = [instances EXCEPT ![self].eventListeners[event] = <<>>]
    /\ UNCHANGED <<clients, lastCtor, calls, requestStartTimes, events, now>>

\* Fault: the listeners of a kind are an array: on() pushes
on_push(self, event, listener) ==
    /\ self \in 1..Len(instances)
    /\ instances' = [instances EXCEPT ![self].eventListeners[event] = Append(@, listener)]
    /\ UNCHANGED <<clients, lastCtor, calls, requestStartTimes, events, now>>

\* on(event, listener): this.eventListeners[event].add(listener)
on(self, event, listener) ==
    /\ self \in 1..Len(instances)
    /\ instances' = [instances EXCEPT ![self].eventListeners[event] = SetAdd(@, listener)]
    /\ UNCHANGED <<clients, lastCtor, calls, requestStartTimes, events, now>>

\* off(event, listener): this.eventListeners[event].delete(listener)
off(self, event, listener) ==
    /\ self \in 1..Len(instances)
    /\ instances' = [instances EXCEPT ![self].eventListeners[event] = SetDelete(@, listener)]
    /\ UNCHANGED <<clients, lastCtor, calls, requestStartTimes, events, now>>

\* What a listener does to the Set it is being called from:
\* "remover" is (e) => abby.off(kind, logger),
\* "mover" is (e) => { abby.off(kind, logger); abby.on(kind, logger) }.
Script(listener) ==
    CASE listener = "remover" -> << [op |-> "off", listener |-> "logger"] >>
      [] listener = "mover"   -> << [op |-> "off", listener |-> "logger"],
                                    [op |-> "on",  listener |-> "logger"] >>
      [] OTHER                -> << >>

\* A Set under iteration is its list of entries: delete() empties the entry
\* where it stands, add() appends an entry, and the iterator walks the list to
\* its end, passing over the emptied entries.
Emptied == "(emptied)"

LiveDelete(entries, x) ==
    [k \in 1..Len(entries) |-> IF entries[k] = x THEN Emptied ELSE entries[k]]

LiveAdd(entries, x) ==
    IF \E k \in 1..Len(entries) : entries[k] = x THEN entries ELSE Append(entries, x)

RECURSIVE RunScript(_, _)
RunScript(ops, entries) ==
    IF ops = <<>> THEN entries
    ELSE RunScript(Tail(ops),
            IF Head(ops).op = "off" THEN LiveDelete(entries, Head(ops).listener)
            ELSE LiveAdd(entries, Head(ops).listener))

Compact(entries) == SelectSeq(entries, LAMBDA y : y # Emptied)

\* Fault: no try/catch around the listener: the first exception ends the loop
\* and leaves emit()
RECURSIVE dispatch_noCatch(_, _, _)
dispatch_noCatch(entries, pos, invoked) ==
    IF pos > Len(entries)
    THEN [invoked |-> invoked, uncaught |-> FALSE, listeners |-> Compact(entries)]
    ELSE IF entries[pos] = Emptied THEN dispatch_noCatch(entries, pos + 1, invoked)
    ELSE IF Throws(entries[pos])
         THEN [invoked |-> Append(invoked, entries[pos]), uncaught |-> TRUE,
               listeners |-> Compact(entries)]
         ELSE dispatch_noCatch(RunScript(Script(entries[pos]), entries), pos + 1,
                               Append(invoked, entries[pos]))

\* A loop over a copy of the listeners while the listeners change the Set.
RECURSIVE copyLoop(_, _, _, _)
copyLoop(copy, entries, pos, invoked) ==
    IF pos > Len(copy)
    THEN [invoked |-> invoked, uncaught |-> FALSE, listeners |-> Compact(entries)]
    ELSE copyLoop(copy, RunScript(Script(copy[pos]), entries), pos + 1,
                  Append(invoked, copy[pos]))

\* Fault: for (const listener of [...this.eventListeners[event]]): the loop runs
\* over a copy of the Set taken when emit() starts
dispatch_snapshot(entries, pos, invoked) == copyLoop(entries, entries, pos, invoked)

\* for (const listener of this.eventListeners[event]) try { listener(data) } catch {}
\* : the listeners invoked, in order, whether an exception left the loop, and
\* the Set as the listeners left it
RECURSIVE dispatch(_, _, _)
dispatch(entries, pos, invoked) ==
    IF pos > Len(entries)
    THEN [invoked |-> invoked, uncaught |-> FALSE, listeners |-> Compact(entries)]
    ELSE IF entries[pos] = Emptied THEN dispatch(entries, pos + 1, invoked)
    ELSE dispatch(RunScript(Script(entries[pos]), entries), pos + 1,
                  Append(invoked, entries[pos]))

\* the publication of an event: emit() called with it in the present state
publication(event) ==
    dispatch(instances[event.inst].eventListeners[event.kind], 1, <<>>)

\* the instances once the listeners of a publication have run
listenersAfter(event) ==
    [instances EXCEPT ![event.inst].eventListeners[event.kind] =
                            publication(event).listeners]

\* Fault: the listeners are kept in one module-level registry, that of the
\* instance constructed first
emit_shared(log, c, event) ==
    [log EXCEPT ![c] = Append(@,
        event @@ [invoked |-> dispatch(instances[1].eventListeners[event.kind],
                                       1, <<>>).invoked,
                  uncaught |-> FALSE])]

\* this.emit(event, data): the event is handed to the listeners of that kind
emit(log, c, event) ==
    [log EXCEPT ![c] = Append(@,
        event @@ [invoked  |-> publication(event).invoked,
                  uncaught |-> publication(event).uncaught])]

\* whether an exception left the latest emit() of call c
Uncaught(log, c) == log[c][Len(log[c])].uncaught

\* Fault: bodyRecord.message || bodyRecord.error
messageOf_truthy(body) ==
    IF ~body.json \/ ~body.object THEN Undefined
    ELSE IF body.message.type = "string" /\ body.message.v # "" THEN body.message.v
    ELSE IF body.error.type = "string" THEN body.error.v
    ELSE Undefined

\* typeof bodyRecord.message === 'string' ? bodyRecord.message
\*   : typeof bodyRecord.error === 'string' ? bodyRecord.error : undefined
messageOf(body) ==
    IF ~body.json \/ ~body.object THEN Undefined
    ELSE IF body.message.type = "string" THEN body.message.v
    ELSE IF body.error.type = "string" THEN body.error.v
    ELSE Undefined

\* const duration = startTime ? Date.now() - startTime : 0
durationOf(map, request) ==
    IF request \in DOMAIN map /\ map[request] # 0 THEN now - map[request] ELSE 0

\* Fault: the record is left in the map
deleteStart_keep(maps, self, request) == maps

\* requestStartTimes.delete(request)
deleteStart(maps, self, request) ==
    [maps EXCEPT ![self] = [r \in (DOMAIN @) \ {request} |-> @[r]]]

\* Fault: the 'error' event is published for every response
isError_always(status) == TRUE

\* Fault: if (response.status >= 400)
isError_4xx(status) == status >= 400

\* whether the interceptor goes on to publish an 'error' event: if (!response.ok)
isError(status) == ~Ok(status)

\* Fault: for a response that is not ok, 'error' is published first, without
\* reading the body, and 'response' after it
responseInterceptor_errorFirst(c) ==
    /\ c \in 1..Len(calls)
    /\ calls[c].phase = "resolved"
    /\ LET self     == Head(clients[calls[c].client].interceptors.response).self
           status   == calls[c].result.status
           duration == durationOf(requestStartTimes[self], c)
           response == [kind |-> "response", inst |-> self, call |-> c,
                        status |-> status, ok |-> Ok(status),
                        duration |-> duration, message |-> Undefined,
                        body |-> NotParsed]
       IN  /\ requestStartTimes' = deleteStart(requestStartTimes, self, c)
           /\ events' = IF isError(status)
                         THEN emit(emit(events, c, [response EXCEPT !.kind = "error"]),
                                   c, response)
                         ELSE emit(events, c, response)
           /\ calls' = SetCall(c, [calls[c] EXCEPT !.duration = duration,
                                      !.observedAt = now,
                                      !.phase = "returned",
                                      !.returned = calls[c].result])
    /\ UNCHANGED <<instances, clients, lastCtor, now>>

\* The response interceptor of the call's client, up to its first await: it
\* publishes 'response' and, for a response that is not ok, starts reading the body.
responseInterceptor(c) ==
    /\ c \in 1..Len(calls)
    /\ calls[c].phase = "resolved"
    /\ LET self     == Head(clients[calls[c].client].interceptors.response).self
           status   == calls[c].result.status
           duration == durationOf(requestStartTimes[self], c)
           baseEvent == [kind |-> "response", inst |-> self, call |-> c,
                         status |-> status, ok |-> Ok(status),
                         duration |-> duration, message |-> Undefined,
                         body |-> NotParsed]
       IN  /\ requestStartTimes' = deleteStart(requestStartTimes, self, c)
           /\ events' = emit(events, c, baseEvent)
           /\ instances' = listenersAfter(baseEvent)
           /\ calls' = SetCall(c, [calls[c] EXCEPT !.duration = duration,
                                      !.observedAt = now,
                                      !.phase = IF Uncaught(events', c) THEN "threw"
                                                ELSE IF isError(status) THEN "reading"
                                                ELSE "returned",
                                      !.returned = IF Uncaught(events', c) \/ isError(status)
                                                   THEN @
                                                   ELSE calls[c].result])
    /\ UNCHANGED <<clients, lastCtor, now>>

\* Fault: no try/catch around clone().json(): a failed parse leaves the interceptor
responseInterceptorError_rethrow(c, body) ==
    /\ c \in 1..Len(calls)
    /\ calls[c].phase = "reading"
    /\ calls[c].bodyEnds
    /\ LET self == Head(clients[calls[c].client].interceptors.response).self
       IN  events' = IF body = NotParsed THEN events
                     ELSE emit(events, c, [kind |-> "error", inst |-> self, call |-> c,
                                   status |-> calls[c].result.status, ok |-> FALSE,
                                   duration |-> calls[c].duration,
                                   message |-> messageOf(body),
                                   body |-> body])
    /\ calls' = SetCall(c, [calls[c] EXCEPT
                    !.phase = IF body = NotParsed THEN "threw" ELSE "returned",
                    !.returned = IF body = NotParsed THEN @ ELSE calls[c].result])
    /\ UNCHANGED <<instances, clients, lastCtor, requestStartTimes, now>>

\* `await clonedResponse.json()` has settled (with a value, or by throwing, which
\* the catch swallows and leaves message and body undefined): the interceptor
\* publishes 'error' and returns the response.  The await settles only if the
\* body's stream ends.
responseInterceptorError(c, body) ==
    /\ c \in 1..Len(calls)
    /\ calls[c].phase = "reading"
    /\ calls[c].bodyEnds
    /\ LET self == Head(clients[calls[c].client].interceptors.response).self
           errorEvent == [kind |-> "error", inst |-> self, call |-> c,
                          status |-> calls[c].result.status, ok |-> FALSE,
                          duration |-> calls[c].duration,
                          message |-> messageOf(body),
                          body |-> body]
       IN  /\ events' = emit(events, c, errorEvent)
           /\ instances' = listenersAfter(errorEvent)
    /\ calls' = SetCall(c, IF Uncaught(events', c)
                           THEN [calls[c] EXCEPT !.phase = "threw"]
                           ELSE [calls[c] EXCEPT !.phase = "returned",
                                                 !.returned = calls[c].result])
    /\ UNCHANGED <<clients, lastCtor, requestStartTimes, now>>

\* Date.now() advances.
Tick ==
    /\ now < MaxClock
    /\ now' = now + 1
    /\ UNCHANGED <<instances, clients, lastCtor, calls, requestStartTimes, events>>

\* ------------------------------------------------------- specifications

Init ==
    /\ instances = <<>>
    /\ clients = <<GlobalClient>>
    /\ lastCtor = [apiKey |-> "none", threw |-> "none"]
    /\ calls = <<>>
    /\ requestStartTimes = <<>>
    /\ events = <<>>
    /\ now = 1

\* The state once one instance has been constructed from the arguments `args`.
InitWith(argset) ==
    \E args \in argset :
        /\ ~apiKeyMissing(args[1])
        /\ LET new == constructed(<<>>, <<GlobalClient>>, args[1], args[2])
           IN  /\ instances = new.instances
               /\ clients = new.clients
        /\ lastCtor = [apiKey |-> args[1], threw |-> "none"]
        /\ calls = <<>>
        /\ requestStartTimes = <<EmptyObject>>
        /\ events = <<>>
        /\ now = 1

\* Construction of instances and the requests their clients hand to the transport.
NextIsolation ==
    \/ \E args \in Arguments :
            /\ Len(instances) < MaxInstances
            /\ Abby(args[1], args[2])
    \/ \E self \in 1..MaxInstances, headers \in CallerHeaders :
            /\ Len(calls) < MaxCalls
            /\ Request(self, NoSignal, headers)
    \/ \E c \in 1..MaxCalls : fetchWithTimeout(c, TRUE)

Spec == Init /\ [][NextIsolation]_vars

\* Calls through the fetchWithTimeout of one instance, against its transport.
NextTimeout ==
    \/ \E signal \in CallerSignals :
            /\ Len(calls) < MaxWrapperCalls
            /\ Request(1, signal, EmptyObject)
    \/ \E c \in 1..MaxWrapperCalls, honors \in BOOLEAN : fetchWithTimeout(c, honors)
    \/ \E c \in 1..MaxWrapperCalls : TimerFire(c)
    \/ \E c \in 1..MaxWrapperCalls : CallerAbort(c)
    \/ \E c \in 1..MaxWrapperCalls : TransportResolve(c, 200)
    \/ \E c \in 1..MaxWrapperCalls : TransportFail(c)
    \/ \E c \in 1..MaxWrapperCalls : TransportAbort(c)
    \/ \E c \in 1..MaxWrapperCalls : fetchWithTimeoutSettle(c)

InitTimeout ==
    InitWith({ <<"test_key_two", ConfigTimeout>>, <<"test_key_one", ConfigProxy>> })

SpecTimeout == InitTimeout /\ [][NextTimeout]_vars

\* One instance's client observing the responses of its calls.
NextRelay ==
    \/ /\ Len(calls) < MaxRelayCalls
       /\ Request(1, NoSignal, EmptyObject)
    \/ \E c \in 1..MaxRelayCalls : fetchWithTimeout(c, TRUE)
    \/ \E c \in 1..MaxRelayCalls, status \in Statuses : TransportResolve(c, status)
    \/ \E c \in 1..MaxRelayCalls : TransportFail(c)
    \/ \E c \in 1..MaxRelayCalls : fetchWithTimeoutSettle(c)
    \/ \E c \in 1..MaxRelayCalls : responseInterceptor(c)
    \/ \E c \in 1..MaxRelayCalls, body \in Bodies : responseInterceptorError(c, body)

InitRelay == InitWith(Arguments)

SpecRelay == InitRelay /\ [][NextRelay]_vars

\* The same calls under the scheduling the host guarantees: a due timer fires,
\* a pending continuation runs, and a transport that honours its signal rejects
\* once the signal is aborted.  Nothing obliges a transport to answer, a caller
\* to abort, or a new call to be made.
NextFair ==
    \/ \E signal \in CallerSignals :
            /\ Len(calls) < MaxFairCalls
            /\ Request(1, signal, EmptyObject)
    \/ \E c \in 1..MaxFairCalls, honors \in BOOLEAN : fetchWithTimeout(c, honors)
    \/ \E c \in 1..MaxFairCalls : TimerFire(c)
    \/ \E c \in 1..MaxFairCalls : CallerAbort(c)
    \/ \E c \in 1..MaxFairCalls : TransportResolve(c, 200)
    \/ \E c \in 1..MaxFairCalls : TransportFail(c)
    \/ \E c \in 1..MaxFairCalls : TransportAbort(c)
    \/ \E c \in 1..MaxFairCalls : fetchWithTimeoutSettle(c)

Fairness ==
    \A c \in 1..MaxFairCalls :
        /\ WF_vars(\E honors \in BOOLEAN : fetchWithTimeout(c, honors))
        /\ WF_vars(TimerFire(c))
        /\ WF_vars(TransportAbort(c))
        /\ WF_vars(fetchWithTimeoutSettle(c))

SpecTimeoutFair == InitTimeout /\ [][NextFair]_vars /\ Fairness

\* The relay under the scheduling the host guarantees: pending continuations
\* run, and a body whose stream ends is read to its end.  Nothing obliges a
\* transport to answer or a stream to end.
NextRelayFair ==
    \/ /\ Len(calls) < MaxRelayFairCalls
       /\ Request(1, NoSignal, EmptyObject)
    \/ \E c \in 1..MaxRelayFairCalls : fetchWithTimeout(c, TRUE)
    \/ \E c \in 1..MaxRelayFairCalls, status \in Statuses : TransportResolve(c, status)
    \/ \E c \in 1..MaxRelayFairCalls, status \in Statuses : TransportResolveStalled(c, status)
    \/ \E c \in 1..MaxRelayFairCalls : TransportFail(c)
    \/ \E c \in 1..MaxRelayFairCalls : fetchWithTimeoutSettle(c)
    \/ \E c \in 1..MaxRelayFairCalls : responseInterceptor(c)
    \/ \E c \in 1..MaxRelayFairCalls, body \in Bodies : responseInterceptorError(c, body)

RelayFairness ==
    \A c \in 1..MaxRelayFairCalls :
        /\ WF_vars(fetchWithTimeout(c, TRUE))
        /\ WF_vars(fetchWithTimeoutSettle(c))
        /\ WF_vars(responseInterceptor(c))
        /\ WF_vars(\E body \in Bodies : responseInterceptorError(c, body))

SpecRelayFair == InitRelay /\ [][NextRelayFair]_vars /\ RelayFairness

\* Concurrent calls of one instance while the clock advances.
NextClock ==
    \/ /\ Len(calls) < MaxClockCalls
       /\ Request(1, NoSignal, EmptyObject)
    \/ \E c \in 1..MaxClockCalls : fetchWithTimeout(c, TRUE)
    \/ \E c \in 1..MaxClockCalls, status \in {200, 500} : TransportResolve(c, status)
    \/ \E c \in 1..MaxClockCalls : TransportFail(c)
    \/ \E c \in 1..MaxClockCalls : fetchWithTimeoutSettle(c)
    \/ \E c \in 1..MaxClockCalls : responseInterceptor(c)
    \/ \E c \in 1..MaxClockCalls : responseInterceptorError(c, NotParsed)
    \/ Tick

InitClock == InitWith({ <<"test_key_one", EmptyObject>> })

SpecClock == InitClock /\ [][NextClock]_vars

\* The subscriptions made on two instances: <<instance, event kind, listener>>.
PairSubscriptions ==
    { <<1, "response", "logger">>, <<1, "error", "logger">>, <<2, "response", "thrower">> }

\* Two instances, their listeners and their calls, interleaved.
NextCross ==
    \/ \E sub \in PairSubscriptions : on(sub[1], sub[2], sub[3])
    \/ \E sub \in PairSubscriptions : off(sub[1], sub[2], sub[3])
    \/ \E self \in {1, 2} :
            /\ Len(calls) < MaxCrossCalls
            /\ Request(self, NoSignal, EmptyObject)
    \/ \E c \in 1..MaxCrossCalls : fetchWithTimeout(c, TRUE)
    \/ \E c \in 1..MaxCrossCalls, status \in {200, 404} : TransportResolve(c, status)
    \/ \E c \in 1..MaxCrossCalls : fetchWithTimeoutSettle(c)
    \/ \E c \in 1..MaxCrossCalls : responseInterceptor(c)
    \/ \E c \in 1..MaxCrossCalls : responseInterceptorError(c, NotParsed)

\* new Abby('test_key_one'); new Abby('test_key_two', ConfigTimeout)
InitCross ==
    /\ LET one == constructed(<<>>, <<GlobalClient>>, "test_key_one", EmptyObject)
           two == constructed(one.instances, one.clients, "test_key_two", ConfigTimeout)
       IN  /\ instances = two.instances
           /\ clients = two.clients
    /\ lastCtor = [apiKey |-> "test_key_two", threw |-> "none"]
    /\ calls = <<>>
    /\ requestStartTimes = <<EmptyObject, EmptyObject>>
    /\ events = <<>>
    /\ now = 1

SpecCross == InitCross /\ [][NextCross]_vars

\* Calls made through the service accessors of two instances.
NextService ==
    \/ \E self \in {1, 2}, given \in ServiceOptions :
            /\ Len(calls) < MaxServiceCalls
            /\ ServiceCall(self, given)
    \/ \E c \in 1..MaxServiceCalls : fetchWithTimeout(c, TRUE)

SpecService == InitCross /\ [][NextService]_vars

\* A call that may be answered, time out, be aborted by its caller or fail, and
\* the events its instance publishes for it.
NextFailures ==
    \/ \E signal \in CallerSignals :
            /\ Len(calls) < MaxFailureCalls
            /\ Request(1, signal, EmptyObject)
    \/ \E c \in 1..MaxFailureCalls, honors \in BOOLEAN : fetchWithTimeout(c, honors)
    \/ \E c \in 1..MaxFailureCalls : TimerFire(c)
    \/ \E c \in 1..MaxFailureCalls : CallerAbort(c)
    \/ \E c \in 1..MaxFailureCalls, status \in {200, 500} : TransportResolve(c, status)
    \/ \E c \in 1..MaxFailureCalls : TransportFail(c)
    \/ \E c \in 1..MaxFailureCalls : TransportAbort(c)
    \/ \E c \in 1..MaxFailureCalls : fetchWithTimeoutSettle(c)
    \/ \E c \in 1..MaxFailureCalls : responseInterceptor(c)
    \/ \E c \in 1..MaxFailureCalls : responseInterceptorError(c, NotParsed)

SpecFailures == InitTimeout /\ [][NextFailures]_vars

\* No call is underway: each has left the response interceptor or was rejected.
Quiet ==
    \A c \in 1..Len(calls) : calls[c].phase \in {"returned", "rejected", "threw"}

\* Callers subscribing and unsubscribing while one caller makes its calls one
\* after the other, awaiting each.
NextListeners ==
    \/ \E sub \in Subscriptions : on(1, sub[1], sub[2])
    \/ \E sub \in Subscriptions : off(1, sub[1], sub[2])
    \/ /\ Len(calls) < MaxListenerCalls
       /\ Quiet
       /\ Request(1, NoSignal, EmptyObject)
    \/ \E c \in 1..MaxListenerCalls : fetchWithTimeout(c, TRUE)
    \/ \E c \in 1..MaxListenerCalls, status \in {200, 404} : TransportResolve(c, status)
    \/ \E c \in 1..MaxListenerCalls : fetchWithTimeoutSettle(c)
    \/ \E c \in 1..MaxListenerCalls : responseInterceptor(c)
    \/ \E c \in 1..MaxListenerCalls : responseInterceptorError(c, NotParsed)

InitListeners == InitWith({ <<"test_key_one", EmptyObject>> })

SpecListeners == InitListeners /\ [][NextListeners]_vars

\* The subscriptions made where listeners change the listeners.
ReentrantSubscriptions ==
    { <<"response", "logger">>, <<"response", "remover">>, <<"response", "mover">> }

\* Callers subscribing listeners that unsubscribe and subscribe other listeners
\* while an event is being published.
NextReentrant ==
    \/ \E sub \in ReentrantSubscriptions : on(1, sub[1], sub[2])
    \/ \E sub \in ReentrantSubscriptions : off(1, sub[1], sub[2])
    \/ /\ Len(calls) < MaxReentrantCalls
       /\ Request(1, NoSignal, EmptyObject)
    \/ \E c \in 1..MaxReentrantCalls : fetchWithTimeout(c, TRUE)
    \/ \E c \in 1..MaxReentrantCalls : TransportResolve(c, 200)
    \/ \E c \in 1..MaxReentrantCalls : fetchWithTimeoutSettle(c)
    \/ \E c \in 1..MaxReentrantCalls : responseInterceptor(c)

SpecReentrant == InitListeners /\ [][NextReentrant]_vars

Dispatched(c) == c \in 1..Len(calls) /\ calls[c].phase # "intercepted"

InFlight(c) == c \in 1..Len(calls) /\ calls[c].phase = "inflight"

TimedOut(c) == c \in 1..Len(calls) /\ calls[c].timer = "fired"

Rejected(c) == c \in 1..Len(calls) /\ calls[c].phase = "rejected"

OwnExtraEntries(self) ==
    IF HasOwn(instances[self].config, "headers")
    THEN { instances[self].config["headers"][k] :
              k \in 1..Len(instances[self].config["headers"]) }
    ELSE {}

OwnExtraNames(self) == { Lower(e[1]) : e \in OwnExtraEntries(self) }

SdkNames == { "x-abby-client", "x-abby-client-version" }

Bearer(self) == "Bearer " \o instances[self].apiKey

\* A's request carries neither B's key nor an extra header of B's configuration
\* that A's own configuration does not hold.
NothingOf(b, a, h) ==
    /\ instances[b].apiKey # instances[a].apiKey =>
            HeadersGet(h, "Authorization") # Bearer(b)
    /\ \A e \in OwnExtraEntries(b) \ OwnExtraEntries(a) :
            HeadersGet(h, e[1]) # e[2]

\* ------------------------------------------------------------ the claims

C2_OneInterceptorEach ==
    /\ clients[1].interceptors.request = <<>>
    /\ \A self \in 1..Len(instances) :
          /\ Len(clients[getClient(self)].interceptors.request) = 1
          /\ clients[getClient(self)].interceptors.request[1].self = self

C2_Witness == Len(instances) = MaxInstances /\ MaxInstances >= 2

\* C3: two instances never share a client, getClient() of an instance returns
\* the same client for ever, and that client has the instance's base URL.
C3_OwnClient ==
    /\ [](\A i \in 1..Len(instances), j \in 1..Len(instances) :
            /\ i # j => getClient(i) # getClient(j)
            /\ getClient(i) \in 2..Len(clients)
            /\ clients[getClient(i)].config.baseUrl = instances[i].config["baseUrl"])
    /\ [][\A i \in 1..Len(instances) :
            /\ getClient(i)' = getClient(i)
            /\ clients'[getClient(i)].config = clients[getClient(i)].config]_vars

C3_Witness ==
    \E i \in 1..Len(instances), j \in 1..Len(instances) :
        /\ i # j
        /\ clients[getClient(i)].config.baseUrl = "https://api1.example.com"
        /\ clients[getClient(j)].config.baseUrl = "https://api.app-abby.com"

C5_ApiKeyRequired ==
    [][(lastCtor' # lastCtor \/ instances' # instances) =>
          IF lastCtor'.apiKey \in {"", Undefined}
          THEN /\ lastCtor'.threw = ApiKeyError
               /\ instances' = instances
               /\ clients' = clients
          ELSE /\ lastCtor'.threw = "none"
               /\ Len(instances') = Len(instances) + 1
               /\ Len(clients') = Len(clients) + 1
               /\ instances'[Len(instances')].apiKey = lastCtor'.apiKey]_vars

C5_Witness == lastCtor.threw = ApiKeyError /\ lastCtor.apiKey = ""

C7_ResolveClearsTimer ==
    [][\A c \in 1..Len(calls) :
          /\ (calls[c].phase = "settling" /\ calls[c].transport.kind = "response"
                    /\ calls[c].timer = "pending" /\ calls'[c].phase # "settling") =>
                /\ calls'[c].phase = "resolved"
                /\ calls'[c].result = calls[c].transport
                /\ calls'[c].timer = "cleared"
                /\ calls'[c].ctrl = calls[c].ctrl
          /\ calls[c].timer = "cleared" =>
                /\ calls'[c].timer = "cleared"
                /\ calls'[c].cause = "timeout" => calls[c].cause = "timeout"]_vars

C7_Witness ==
    \E c \in 1..Len(calls) :
        /\ calls[c].phase = "resolved"
        /\ calls[c].timer = "cleared"
        /\ calls[c].result.kind = "response"

\* C8: the signal the transport holds is aborted as soon as the caller's signal
\* is aborted or the timer has fired, and only then; it is aborted from the start
\* exactly when the caller's signal was already aborted at the call.
C8_EitherTriggerAborts ==
    \A c \in 1..Len(calls) :
        Dispatched(c) =>
            /\ calls[c].ctrl.aborted <=>
                    (calls[c].signal.state = "aborted" \/ calls[c].timer = "fired")
            /\ calls[c].seen <=> (calls[c].cause = "already-aborted")
            /\ calls[c].cause = "already-aborted" => calls[c].signal.state = "aborted"
            /\ calls[c].cause = "caller" => calls[c].signal.state = "aborted"
            /\ calls[c].cause = "timeout" => calls[c].timer = "fired"
            /\ calls[c].cause = "none" <=> ~calls[c].ctrl.aborted

C8_Witness ==
    \E c1 \in 1..Len(calls), c2 \in 1..Len(calls) :
        /\ calls[c1].cause = "already-aborted" /\ calls[c1].seen
        /\ calls[c2].cause = "caller" /\ calls[c2].phase = "inflight"
        /\ calls[c2].timer = "pending"

\* C9: a call aborted by its timer and a call aborted by its caller show the
\* transport the same signal state, and when the abort rejects them the caller
\* receives the same failure.
C9_AbortsIndistinguishable ==
    \A c1 \in 1..Len(calls), c2 \in 1..Len(calls) :
        (calls[c1].cause = "timeout" /\ calls[c2].cause \in {"caller", "already-aborted"}) =>
            /\ calls[c1].ctrl = calls[c2].ctrl
            /\ (Rejected(c1) /\ Rejected(c2) /\ calls[c1].result.by = "abort"
                    /\ calls[c2].result.by = "abort") =>
                  calls[c1].result = calls[c2].result

C9_Witness ==
    \E c1 \in 1..Len(calls), c2 \in 1..Len(calls) :
        /\ calls[c1].cause = "timeout" /\ calls[c2].cause = "caller"
        /\ Rejected(c1) /\ Rejected(c2)
        /\ calls[c1].result.by = "abort" /\ calls[c2].result.by = "abort"

Published(c, kind) == { k \in 1..Len(events[c]) : events[c][k].kind = kind }

ErrorEvents(c) == { events[c][k] : k \in Published(c, "error") }

\* C11: the message of the 'error' event of a response whose body parsed as a
\* JSON object is the body's `message` when that is a string, else the body's
\* `error` when that is a string, else absent; a 404 with {"message":"not found"}
\* gives "not found".
C11_MessageExtraction ==
    \A c \in 1..Len(calls) : \A e \in ErrorEvents(c) :
        (e.body.json /\ e.body.object) =>
            /\ e.body.message.type = "string" => e.message = e.body.message.v
            /\ (e.body.message.type # "string" /\ e.body.error.type = "string") =>
                    e.message = e.body.error.v
            /\ (e.body.message.type # "string" /\ e.body.error.type # "string") =>
                    e.message = Undefined

C11_Witness ==
    /\ \E c \in 1..Len(calls) : \E e \in ErrorEvents(c) :
            e.status = 404 /\ e.body.message = Str("not found") /\ e.message = "not found"
    /\ \E c \in 1..Len(calls) : \E e \in ErrorEvents(c) :
            e.body.message = Str("") /\ e.body.error = Str("bad request")

\* C12: when the body of a response that is not ok cannot be parsed or read, the
\* interceptor still publishes the 'error' event, with no message, does not
\* throw, and returns the response it was given.
C12_ParseFailureSwallowed ==
    [][\A c \in 1..Len(calls) :
          (calls[c].phase = "reading" /\ calls'[c].phase # "reading") =>
              /\ calls'[c].phase = "returned"
              /\ calls'[c].returned = calls[c].result
              /\ Len(events'[c]) = Len(events[c]) + 1
              /\ events'[c][Len(events'[c])].kind = "error"
              /\ events'[c][Len(events'[c])].body = NotParsed =>
                    events'[c][Len(events'[c])].message = Undefined]_vars

C12_Witness ==
    \E c \in 1..Len(calls) : \E e \in ErrorEvents(c) :
        /\ e.body = NotParsed /\ e.message = Undefined
        /\ calls[c].phase = "returned" /\ calls[c].returned = calls[c].result

Arrived(c) == c \in 1..Len(calls) /\ calls[c].phase = "resolved"

Returned(c) == c \in 1..Len(calls) /\ calls[c].phase = "returned"

\* C13 as stated: every response that arrives at the response interceptor is
\* eventually returned to the caller, also when reading the body of a response
\* that is not ok never completes.
C13_AlwaysReturns ==
    \A c \in 1..MaxRelayFairCalls : Arrived(c) ~> Returned(c)

\* C13, what the code does guarantee: a response that is ok, or whose body's
\* stream ends, is eventually returned to the caller.
C13_ReturnsUnlessBodyStalls ==
    \A c \in 1..MaxRelayFairCalls :
        (Arrived(c) /\ (calls[c].bodyEnds \/ Ok(calls[c].result.status))) ~> Returned(c)

C13_Stalled ==
    \E c \in 1..Len(calls) :
        /\ calls[c].phase = "reading" /\ ~calls[c].bodyEnds
        /\ calls[c].timer = "cleared"

Registered(self, event) ==
    { instances[self].eventListeners[event][k] :
         k \in 1..Len(instances[self].eventListeners[event]) }

Invoked(e) == { e.invoked[k] : k \in 1..Len(e.invoked) }

\* C14: whenever an event is published every listener registered for its kind is
\* invoked, whether or not one of them throws, and no exception leaves emit();
\* so a response that is not ok still gets its 'error' event after a throwing
\* 'response' listener, the interceptor never throws, and it returns the response.
C14_ListenersIsolated ==
    /\ [](\A c \in 1..Len(calls) :
            /\ calls[c].phase # "threw"
            /\ \A k \in 1..Len(events[c]) : ~events[c][k].uncaught
            /\ Returned(c) =>
                  /\ calls[c].returned = calls[c].result
                  /\ ~Ok(calls[c].result.status) => Published(c, "error") # {})
    /\ [][\A c \in 1..Len(calls) :
            Len(events'[c]) > Len(events[c]) =>
                LET e == events'[c][Len(events'[c])]
                IN  Invoked(e) = Registered(e.inst, e.kind)]_vars

C14_Witness ==
    \E c \in 1..Len(calls) :
        /\ Returned(c) /\ calls[c].result.status = 404
        /\ Len(events[c]) = 2
        /\ events[c][1].invoked = <<"thrower", "logger">>
        /\ events[c][2].kind = "error" /\ events[c][2].invoked = <<"logger">>

\* C15: off(kind, l) leaves l unregistered for that kind and every other
\* registration as it was; l stays unregistered until on(kind, l) is called
\* again; and an event is delivered to exactly the listeners registered for its
\* kind when it is published, so not to l and to every other one.
C15_OffStopsDelivery ==
    [][/\ \A self \in 1..Len(instances), event \in EventKinds, l \in Listeners :
            /\ off(self, event, l) =>
                  /\ Registered(self, event)' = Registered(self, event) \ {l}
                  /\ \A other \in EventKinds \ {event} :
                        Registered(self, other)' = Registered(self, other)
            /\ (l \notin Registered(self, event) /\ l \in Registered(self, event)') =>
                  on(self, event, l)
       /\ \A c \in 1..Len(calls) :
            Len(events'[c]) > Len(events[c]) =>
                LET e == events'[c][Len(events'[c])]
                IN  /\ Invoked(e) = Registered(e.inst, e.kind)
                    /\ Len(e.invoked) = Cardinality(Invoked(e))]_vars

\* Calls are made one after the other here: the thrower was unsubscribed between
\* the first call's 'response' event and the second's.
C15_Witness ==
    /\ Len(calls) >= 2
    /\ Len(events[1]) >= 1 /\ events[1][1].invoked = <<"thrower", "logger">>
    /\ Len(events[2]) >= 1 /\ events[2][1].invoked = <<"logger">>

C17_FailureSurfacedOnce ==
    /\ [](\A c \in 1..Len(calls) :
            /\ Dispatched(c) => calls[c].invoked = 1
            /\ ~Dispatched(c) => calls[c].invoked = 0
            /\ Rejected(c) <=> calls[c].result.kind = "error"
            /\ Rejected(c) => calls[c].result = calls[c].transport
            /\ (calls[c].transport.kind = "error" /\ calls[c].phase # "settling") =>
                    Rejected(c))
    /\ [][\A c \in 1..Len(calls) :
            Rejected(c) =>
                /\ calls'[c].phase = "rejected"
                /\ calls'[c].result = calls[c].result
                /\ calls'[c].invoked = calls[c].invoked]_vars

C17_Witness ==
    \E c1 \in 1..Len(calls), c2 \in 1..Len(calls) :
        /\ Rejected(c1) /\ calls[c1].result.error = "TypeError"
        /\ Rejected(c2) /\ calls[c2].result.error = "AbortError"
        /\ calls[c2].cause = "timeout"

CustomFetch(self) ==
    HasOwn(instances[self].config, "fetch") /\ instances[self].config["fetch"] # Undefined

\* C18: when the configuration supplies a transport function, every call through
\* the instance's client invokes that function and not the global fetch, hands
\* it the signal of the wrapper's own controller, and arms the timer with the
\* configured timeout, whose firing aborts that signal.
C18_CustomTransport ==
    \A c \in 1..Len(calls) :
        (Dispatched(c) /\ CustomFetch(calls[c].inst)) =>
            /\ calls[c].baseFetch = instances[calls[c].inst].config["fetch"]
            /\ calls[c].baseFetch # "globalThis.fetch"
            /\ calls[c].init["signal"] = "controller.signal"
            /\ calls[c].timer # "none"
            /\ calls[c].delay = instances[calls[c].inst].config["timeout"]
            /\ TimedOut(c) => calls[c].ctrl.aborted

C18_Witness ==
    \E c \in 1..Len(calls) :
        /\ calls[c].baseFetch = "customFetch" /\ ~calls[c].honors
        /\ calls[c].signal.state = "live"
        /\ calls[c].delay = "5000"
        /\ TimedOut(c) /\ calls[c].ctrl.aborted /\ InFlight(c)

\* The timeout the configuration of an instance supplied, "30000" if it supplied
\* none: a field omitted is the default after the merge, a field left undefined
\* is still undefined.
SuppliedTimeout(self) ==
    IF instances[self].config["timeout"] = Undefined
    THEN "30000"
    ELSE instances[self].config["timeout"]

\* C19 as stated: the timer of every call is armed with the configured timeout,
\* and with 30000 ms when the configuration supplies no timeout value, the
\* field being omitted or left undefined.
C19_ArmedTimeout ==
    \A c \in 1..Len(calls) :
        Dispatched(c) => calls[c].delay = SuppliedTimeout(calls[c].inst)

C19_UndefinedArmed ==
    \E c \in 1..Len(calls) :
        /\ Dispatched(c) /\ calls[c].timer = "pending"
        /\ calls[c].delay = Undefined
        /\ calls[c].baseFetch = "customFetch"

\* the wrapper of call c is at `await baseFetch(...)`
Awaiting(c) == c \in 1..Len(calls) /\ calls[c].phase \in {"inflight", "settling"}

Settled(c) == c \in 1..Len(calls) /\ calls[c].phase \in {"resolved", "rejected"}

\* C20 as stated: a settled call's timer is not pending, and the calls with a
\* pending timer are exactly the calls still awaiting their transport.
C20_PendingExactlyAwaiting ==
    \A c \in 1..Len(calls) :
        /\ Settled(c) => calls[c].timer # "pending"
        /\ calls[c].timer = "pending" <=> Awaiting(c)

\* C20 amended: a settled call's timer is not pending, whether the transport
\* resolved or rejected; every pending timer belongs to a call still awaiting its
\* transport; and a call still awaiting its transport has a pending timer unless
\* its timeout has elapsed, in which case the timer has fired.
C20_NoTimerLeak ==
    \A c \in 1..Len(calls) :
        /\ Settled(c) => calls[c].timer \in {"cleared", "fired"}
        /\ calls[c].timer = "pending" => Awaiting(c)
        /\ Awaiting(c) => calls[c].timer \in {"pending", "fired"}

C20_Witness ==
    \E c1 \in 1..Len(calls), c2 \in 1..Len(calls) :
        /\ calls[c1].phase = "resolved" /\ calls[c1].timer = "cleared"
        /\ calls[c2].phase = "rejected" /\ calls[c2].timer = "cleared"
        /\ calls[c2].result.error = "TypeError"

Observed(c) == c \in 1..Len(calls) /\ calls[c].phase \in {"reading", "returned", "threw"}

\* C21: once the response of a call has been observed by the response
\* interceptor the timing map of its instance holds no record for its request;
\* the records held are those of the calls not yet observed.
C21_NoTimingLeak ==
    \A c \in 1..Len(calls) :
        /\ Observed(c) => c \notin DOMAIN requestStartTimes[calls[c].inst]
        /\ ~Observed(c) => c \in DOMAIN requestStartTimes[calls[c].inst]

C21_Witness ==
    \E c1 \in 1..Len(calls), c2 \in 1..Len(calls) :
        /\ Returned(c1) /\ c1 \notin DOMAIN requestStartTimes[1]
        /\ InFlight(c2) /\ c2 \in DOMAIN requestStartTimes[1]

\* C22: the duration in the events of a call is the clock at the time its
\* response interceptor ran minus the clock at the time its own request
\* interceptor ran, whatever other calls of the instance did in between.
C22_DurationPerRequest ==
    \A c \in 1..Len(calls) :
        Observed(c) =>
            /\ calls[c].duration = calls[c].observedAt - calls[c].startedAt
            /\ \A k \in 1..Len(events[c]) : events[c][k].duration = calls[c].duration

C22_Witness ==
    \E c1 \in 1..Len(calls), c2 \in 1..Len(calls) :
        /\ Returned(c1) /\ Returned(c2)
        /\ calls[c1].startedAt < calls[c2].startedAt
        /\ calls[c2].observedAt < calls[c1].observedAt
        /\ calls[c1].duration = 2 /\ calls[c2].duration = 0
        /\ Len(events[c1]) = 2

\* C23: an event of a call made through instance B is delivered to the
\* listeners registered on B when it is published and to no other: a listener
\* registered only on instance A is never invoked for it.
C23_NoCrossInstanceEvents ==
    /\ [](\A c \in 1..Len(calls) : \A k \in 1..Len(events[c]) :
            /\ events[c][k].inst = calls[c].inst
            /\ \A l \in Invoked(events[c][k]) :
                  <<calls[c].inst, events[c][k].kind, l>> \in PairSubscriptions)
    /\ [][\A c \in 1..Len(calls) :
            Len(events'[c]) > Len(events[c]) =>
                LET e == events'[c][Len(events'[c])]
                IN  Invoked(e) = Registered(calls[c].inst, e.kind)]_vars

C23_Witness ==
    \E c1 \in 1..Len(calls), c2 \in 1..Len(calls) :
        /\ calls[c1].inst = 1 /\ calls[c2].inst = 2
        /\ Len(events[c1]) >= 1 /\ events[c1][1].invoked = <<"logger">>
        /\ Len(events[c2]) = 2 /\ events[c2][1].invoked = <<"thrower">>
        /\ events[c2][2].invoked = <<>>
        /\ Registered(1, "error") = {"logger"}

Members(self, event) == instances[self].eventListeners[event]

\* C24: the listeners of a kind are a set.  No listener is ever held twice, so
\* on() of a registered listener changes nothing and each published event
\* invokes it once; on() adds exactly its listener and off() removes exactly its
\* listener, under the kind named and under no other; off() of a listener that
\* is not registered under that kind changes nothing.
C24_ListenerSets ==
    /\ [](\A self \in 1..Len(instances), event \in EventKinds :
            /\ Cardinality(Registered(self, event)) = Len(Members(self, event))
            /\ \A c \in 1..Len(calls) : \A k \in 1..Len(events[c]) :
                  Cardinality(Invoked(events[c][k])) = Len(events[c][k].invoked))
    /\ [][\A self \in 1..Len(instances), event \in EventKinds, l \in Listeners :
            /\ on(self, event, l) =>
                  /\ Registered(self, event)' = Registered(self, event) \cup {l}
                  /\ l \in Registered(self, event) => instances' = instances
                  /\ \A other \in EventKinds \ {event} :
                        Members(self, other)' = Members(self, other)
            /\ off(self, event, l) =>
                  /\ l \notin Registered(self, event)'
                  /\ l \notin Registered(self, event) => instances' = instances
                  /\ \A other \in EventKinds \ {event} :
                        Members(self, other)' = Members(self, other)]_vars

C24_Witness ==
    /\ Members(1, "response") = <<"logger">>
    /\ Members(1, "error") = <<"logger">>
    /\ Len(calls) >= 2
    /\ Len(events[1]) = 2 /\ events[1][1].invoked = <<"logger">>
    /\ events[1][2].invoked = <<>>
    /\ Len(events[2]) = 2 /\ events[2][1].invoked = <<>>
    /\ events[2][2].invoked = <<"logger">>

\* C25: the options a generated method receives through a service accessor of
\* an instance hold that instance's client, also when the caller's options held
\* another client, and hold every other field of the caller's options
\* unchanged; the request is made through that client.
C25_ServiceClientInjected ==
    \A c \in 1..Len(calls) :
        LET self == calls[c].inst
        IN  /\ calls[c].options["client"] = getClient(self)
            /\ calls[c].client = getClient(self)
            /\ DOMAIN calls[c].options = (DOMAIN calls[c].given) \cup {"client"}
            /\ \A k \in (DOMAIN calls[c].given) \ {"client"} :
                  calls[c].options[k] = calls[c].given[k]
            /\ Dispatched(c) => HeadersGet(calls[c].handed, "Authorization") = Bearer(self)

C25_Witness ==
    \E c \in 1..Len(calls) :
        /\ calls[c].inst = 2 /\ Dispatched(c)
        /\ HasOwn(calls[c].given, "client") /\ calls[c].given["client"] = 1
        /\ calls[c].options["client"] = 3
        /\ calls[c].options["path"] = "invoice_1"

\* C26: a call whose transport failed, by a network error or by rejecting after
\* a timeout or a caller's abort, produced no response: no 'response' and no
\* 'error' event is ever published for it.  Events are published only for calls
\* whose transport resolved with a response.
C26_NoEventsOnTransportFailure ==
    \A c \in 1..Len(calls) :
        /\ calls[c].transport.kind = "error" => events[c] = <<>>
        /\ Rejected(c) => events[c] = <<>>
        /\ events[c] # <<>> => calls[c].transport.kind = "response"

C26_Witness ==
    \E c \in 1..Len(calls) :
        /\ Rejected(c) /\ calls[c].cause = "caller"
        /\ calls[c].result.error = "AbortError"
        /\ events[c] = <<>>

\* C27: the 'response' event of a call is published, and delivered to all its
\* listeners, before its 'error' event, if it has one, is published; the
\* response is returned only after the 'response' event and, when the status
\* is not ok, the 'error' event have been delivered, and nothing is published
\* for the call after that.
C27_DeliveryOrder ==
    /\ [](\A c \in 1..Len(calls) :
            /\ Len(events[c]) <= 2
            /\ Len(events[c]) >= 1 => events[c][1].kind = "response"
            /\ Len(events[c]) = 2 => events[c][2].kind = "error"
            /\ calls[c].returned # NoOutcome =>
                  Len(events[c]) = IF Ok(calls[c].result.status) THEN 1 ELSE 2)
    /\ [][\A c \in 1..Len(calls) :
            /\ Len(events'[c]) > Len(events[c]) =>
                  /\ Len(events'[c]) = Len(events[c]) + 1
                  /\ calls[c].returned = NoOutcome
                  /\ Invoked(events'[c][Len(events'[c])]) =
                        Registered(calls[c].inst, events'[c][Len(events'[c])].kind)
            /\ calls[c].returned # NoOutcome => events'[c] = events[c]]_vars

C27_Witness ==
    \E c1 \in 1..Len(calls), c2 \in 1..Len(calls) :
        /\ Returned(c1) /\ calls[c1].result.status = 404
        /\ events[c1][1].invoked = <<"logger", "thrower">>
        /\ events[c1][2].invoked = <<"logger">>
        /\ Returned(c2) /\ calls[c2].result.status = 200
        /\ events[c2][1].invoked # <<>>

\* C28: a step that aborts the controller of one call, fires its timer or
\* clears it leaves the controller and the timer of every other call as they
\* were: a timeout or a caller's abort of one call never aborts another call's
\* signal, and a call that completes never clears another call's timer.
C28_CallsIndependent ==
    [][\A c \in 1..Len(calls), d \in 1..Len(calls) :
          (c # d /\ (calls'[c].ctrl # calls[c].ctrl
                        \/ calls'[c].timer # calls[c].timer
                        \/ calls'[c].phase # calls[c].phase)) =>
              /\ calls'[d].ctrl = calls[d].ctrl
              /\ calls'[d].timer = calls[d].timer
              /\ calls'[d].cause = calls[d].cause]_vars

C28_Witness ==
    \E c \in 1..Len(calls), d \in 1..Len(calls) :
        /\ calls[c].timer = "fired" /\ calls[c].ctrl.aborted
        /\ Rejected(c) /\ calls[c].cause = "timeout"
        /\ InFlight(d) /\ ~calls[d].ctrl.aborted /\ calls[d].timer = "pending"
        /\ calls[d].seen = FALSE

Position(seq, x) == CHOOSE k \in 1..Len(seq) : seq[k] = x

Holds(seq, x) == \E k \in 1..Len(seq) : seq[k] = x

Count(seq, x) == Cardinality({ k \in 1..Len(seq) : seq[k] = x })

\* "remover" stands before "logger" in the Set and nothing registers "logger" again
RemovedBeforeTurn(members) ==
    /\ Holds(members, "remover") /\ Holds(members, "logger")
    /\ Position(members, "remover") < Position(members, "logger")
    /\ ~Holds(members, "mover")

\* "logger" stands before "mover", which removes it and registers it again at
\* the end of the Set, and no "remover" takes its turn before "logger" does,
\* the first time or the second
InvokedThenMoved(members) ==
    /\ Holds(members, "mover") /\ Holds(members, "logger")
    /\ Position(members, "logger") < Position(members, "mover")
    /\ Holds(members, "remover") =>
            /\ Position(members, "logger") < Position(members, "remover")
            /\ Position(members, "remover") < Position(members, "mover")

C29_InvokedTwice ==
    /\ Len(calls) >= 1 /\ Len(events[1]) = 1
    /\ events[1][1].invoked = <<"logger", "mover", "logger">>
    /\ Members(1, "response") = <<"mover", "logger">>

\* C30 as stated: once a call through the wrapper has settled, the signal that
\* was passed to its transport is never aborted afterwards, neither by the
\* timer nor by a later abort of the caller-supplied signal.
C30_NeverAbortedAfterSettle ==
    [][\A c \in 1..Len(calls) :
          (Settled(c) /\ ~calls[c].ctrl.aborted) => ~calls'[c].ctrl.aborted]_vars

\* C30 amended: once a call through the wrapper has settled, its timer is no
\* longer pending and never aborts the signal that was passed to its transport;
\* the listener on the caller-supplied signal stays attached, so that signal is
\* aborted afterwards exactly when the caller aborts a signal that was live
\* when the call was made.
C30_OnlyCallerAbortsAfterSettle ==
    [][\A c \in 1..Len(calls) :
          Settled(c) =>
              /\ calls[c].timer # "pending"
              /\ calls'[c].timer = calls[c].timer
              /\ ~calls[c].ctrl.aborted =>
                    (calls'[c].ctrl.aborted <=>
                        /\ calls[c].listening
                        /\ calls[c].signal.state = "live"
                        /\ calls'[c].signal.state = "aborted")
              /\ calls'[c].ctrl.aborted => calls'[c].cause # "timeout"
                                            \/ calls[c].cause = "timeout"]_vars

C30_Witness ==
    \E c \in 1..Len(calls) :
        /\ Settled(c) /\ calls[c].result.kind = "response"
        /\ calls[c].timer = "cleared"
        /\ calls[c].ctrl.aborted /\ calls[c].cause = "caller"
        /\ calls[c].abortedIn = "resolved"

====
